---- MODULE Spec2Model ----
(***************************************************************************)
(* gdfs: a coordinator (NameNode), data servers (DataNode) and a client.   *)
(* The coordinator's RPC handlers, the data server's start-up sequence and *)
(* RPC handlers, and the client's copyFromLocal / copyToLocal commands are  *)
(* modelled one action per handler or RPC step.                             *)
(*                                                                         *)
(* Strings that the code builds from parts are sequences of their          *)
(* hyphen-separated fields: a StorageID "host-millis-rand" is              *)
(* <<host, millis, rand>>, the empty string is <<>>, a BlockID             *)
(* "name-index-millis-rand" is the fields of the name followed by          *)
(* <<index, millis, rand>>.  Addresses are strings, "" the empty one.      *)
(***************************************************************************)
EXTENDS Integers, Sequences, FiniteSets, TLC

(***************************************************************************)
(* Bounds of the model.  BlkSize and ReplicationFactor are config.BlkSize   *)
(* (4096) and config.ReplicationFactor (3) scaled down so that multi-block  *)
(* files and plans shorter than the number of registered addresses occur.  *)
(***************************************************************************)
BlkSize == 2
ReplicationFactor == 2
MaxFileSize == 3
MaxFaults == 1
MaxRand == 3
MaxReplicaList == 2
MaxNotify == 2
StartTime == 5
OldEpoch == 9

DN == {"d1", "d2"}
\* the addresses a data server's host name may resolve to (getAddress);
\* d1's address can change between two runs, d2's is fixed
AddrsOf(d) == IF d = "d1" THEN {"a1", "a3"} ELSE {"a2"}
Addrs == UNION {AddrsOf(d) : d \in DN}
NoSID == <<>>
NoAddr == ""
Root == <<>>
\* names of local files, as their hyphen-separated fields
FileNames == {<<"f">>}

VARIABLES
    NamespaceID,     \* NameNode.NamespaceID
    nidFile,         \* meta/nid on the coordinator's disk
    tree,            \* meta/gdfs: path -> directory or file content
    BlkToDatanodes,  \* NameNode.BlkToDatanodes: BlockID -> list of StorageIDs
    SID2Addr,        \* NameNode.SID2Addr
    Addr2SID,        \* NameNode.Addr2SID
    RequestBlk,      \* NameNode.RequestBlk
    Format,          \* NameNode.Format
    fmt,             \* the Format handlers sleeping in setFormat
    notifying,       \* the notify goroutines sleeping
    clock,           \* wall clock in milliseconds
    randCalls,       \* calls of math/rand made by the coordinator process
    dn,              \* each data server process: its fields and position
    disk,            \* each data server's data directory
    cw,              \* the client's copyFromLocal command
    cr,              \* the client's copyToLocal command
    written,         \* the last copyFromLocal that ran to its end
    sh,              \* the client's last Mkdir or MkdirP and its reply
    mv,              \* the coordinator's CalMeanVar handler and its goroutines
    budget,          \* formats, coordinator restarts and kills still to come
    busy             \* the RPC handlers under way: where, which, called by whom

vars == <<NamespaceID, nidFile, tree, BlkToDatanodes, SID2Addr, Addr2SID,
          RequestBlk, Format, fmt, notifying, clock, randCalls,
          dn, disk, cw, cr, written, sh, mv, budget, busy>>

nnMem == <<NamespaceID, BlkToDatanodes, SID2Addr, Addr2SID, RequestBlk, Format>>
nnDisk == <<nidFile, tree>>
dnVars == <<dn, disk>>
clVars == <<cw, cr, written, sh>>
nnTimers == <<fmt, notifying>>
ids == <<clock, randCalls>>

(***************************************************************************)
(* Helpers: Go maps, decimal text, paths.                                   *)
(***************************************************************************)
EmptyMap == <<>>
\* m[k] of a Go map: the zero value when k is absent
Get(m, k, zero) == IF k \in DOMAIN m THEN m[k] ELSE zero
\* m[k] = v
Put(m, k, v) == [x \in DOMAIN m \cup {k} |-> IF x = k THEN v ELSE m[x]]
Min(a, b) == IF a < b THEN a ELSE b
Range(s) == {s[i] : i \in 1..Len(s)}
NoDup(s) == \A i, j \in 1..Len(s) : i # j => s[i] # s[j]

RECURSIVE Itoa(_)
\* strconv.Itoa for n >= 0: the decimal digits of n
Itoa(n) == IF n < 10 THEN <<n>> ELSE Append(Itoa(n \div 10), n % 10)

RECURSIVE DigitsValue(_)
DigitsValue(s) ==
    IF Len(s) = 0 THEN 0
    ELSE 10 * DigitsValue(SubSeq(s, 1, Len(s) - 1)) + s[Len(s)]

\* strconv.Atoi: [ok, val]; the empty text is an error
Atoi(s) == IF Len(s) = 0 THEN [ok |-> FALSE, val |-> 0]
           ELSE [ok |-> TRUE, val |-> DigitsValue(s)]

NoFile == [ex |-> FALSE, text |-> <<>>]
\* os.OpenFile(O_RDWR) + WriteString + Flush: the text is written at offset 0
\* over the old content, which is not truncated
OverwriteAt0(f, text) ==
    [ex |-> TRUE,
     text |-> text \o SubSeq(f.text, Len(text) + 1, Len(f.text))]
\* os.Create + WriteString + Flush: the file is truncated first
CreateWith(text) == [ex |-> TRUE, text |-> text]

(***************************************************************************)
(* The namespace mirror meta/gdfs: a path is the sequence of its names, an *)
(* entry is a directory or a file holding the JSON text of a block list.   *)
(***************************************************************************)
Dir == [dir |-> TRUE, text |-> <<>>]
File(text) == [dir |-> FALSE, text |-> text]
Exists(t, p) == p \in DOMAIN t
IsDir(t, p) == Exists(t, p) /\ t[p].dir
IsPrefix(p, q) == Len(p) <= Len(q) /\ SubSeq(q, 1, Len(p)) = p
\* os.RemoveAll
RemoveAll(t, p) == [q \in {x \in DOMAIN t : ~IsPrefix(p, x)} |-> t[q]]
\* os.MkdirAll: nothing is made when an existing prefix is a file
MkdirAll(t, p) ==
    IF \E k \in 0..Len(p) : Exists(t, SubSeq(p, 1, k)) /\ ~IsDir(t, SubSeq(p, 1, k))
    THEN t
    ELSE [q \in DOMAIN t \cup {SubSeq(p, 1, k) : k \in 0..Len(p)} |->
             IF q \in DOMAIN t THEN t[q] ELSE Dir]
\* ioutil.ReadDir: the names directly under p
ReadDir(t, p) == {q[Len(q)] : q \in {x \in DOMAIN t : Len(x) = Len(p) + 1 /\ IsPrefix(p, x)}}
EmptyTree == [q \in {Root} |-> Dir]

\* json.Marshal of a []string: the tokens of the array text
RECURSIVE Marshal(_)
Marshal(list) ==
    IF Len(list) = 0 THEN <<"[", "]">>
    ELSE IF Len(list) = 1 THEN <<"[", list[1], "]">>
    ELSE LET m == Marshal(SubSeq(list, 1, Len(list) - 1))
         IN SubSeq(m, 1, Len(m) - 1) \o <<",", list[Len(list)], "]">>
\* json.Unmarshal into a []string: the items between the separators; a text
\* that is no array (the empty text of a failed read) leaves the slice nil
Unmarshal(text) ==
    IF Len(text) < 2 THEN <<>>
    ELSE [i \in 1..((Len(text) - 1) \div 2) |-> text[2 * i]]

(***************************************************************************)
(* NameNode: construction (NewNameNode, init, readNID, initNID).            *)
(***************************************************************************)
\* readNID / initNID: the NamespaceID the coordinator starts with
StartNID(f) ==
    IF f.ex THEN (IF Atoi(f.text).ok THEN Atoi(f.text).val ELSE 1) ELSE 1
\* readNID / initNID: the nid file after start-up
StartNidFile(f) ==
    IF f.ex THEN (IF Atoi(f.text).ok THEN f ELSE OverwriteAt0(f, Itoa(1)))
    ELSE CreateWith(Itoa(1))
\* init: meta/gdfs is created when it is missing
StartTree(t) == IF Exists(t, Root) THEN t ELSE MkdirAll(t, Root)

\* a dumpNID that writes nothing
dumpNIDNothing(f, nid) == f

\* dumpNID: the decimal text of the id, written over the file's start
dumpNID(f, nid) == OverwriteAt0(f, Itoa(nid))

(***************************************************************************)
(* NameNode: the handlers called by data servers.                          *)
(***************************************************************************)
\* a Handshake that accepts every namespace id
HandshakeAny(nid) == [ok |-> TRUE, NamespaceID |-> NamespaceID]

\* Handshake: the reply for a caller carrying namespace id nid
Handshake(nid) ==
    IF nid = -1 THEN [ok |-> TRUE, NamespaceID |-> NamespaceID]
    ELSE IF nid # NamespaceID THEN [ok |-> FALSE, NamespaceID |-> 0]
    ELSE [ok |-> TRUE, NamespaceID |-> NamespaceID]

\* generateSID: hostname-timestamp-random
generateSID(host) == <<host, clock, randCalls>>

\* a Register that generates a StorageID for every caller
RegisterSIDAlways(host, sid) == generateSID(host)

\* Register: the StorageID replied
RegisterSID(host, sid) == IF sid = NoSID THEN generateSID(host) ELSE sid
\* Register: the maps after the call
RegisterSID2Addr(addr, rsid) == Put(SID2Addr, rsid, addr)
RegisterAddr2SID(addr, rsid) == Put(Addr2SID, addr, rsid)

\* ReportBlock: every reported id gets the caller's StorageID appended
ReportBlock(addr, idToMeta) ==
    [b \in DOMAIN BlkToDatanodes \cup DOMAIN idToMeta |->
        IF b \in DOMAIN idToMeta
        THEN Append(Get(BlkToDatanodes, b, <<>>), Get(Addr2SID, addr, NoSID))
        ELSE BlkToDatanodes[b]]
\* the lists a report would build stay within the model's bound
ReportFits(idToMeta) ==
    \A b \in DOMAIN idToMeta : Len(Get(BlkToDatanodes, b, <<>>)) < MaxReplicaList

(***************************************************************************)
(* NameNode: RunCommand (Format, Ls, CopyFromLocal, CopyToLocal), Notify.   *)
(***************************************************************************)
\* Go's integer division truncates toward zero
GoDiv(a, b) == IF a >= 0 THEN a \div b ELSE -((-a) \div b)

\* runCopyFromLocal: numBlks
NumBlks(fileSize) == GoDiv(fileSize - 1, BlkSize) + 1

\* generateSegName: filename-index-timestamp-random; r is the random number
generateSegName(filename, index, r) == filename \o <<index, clock, r>>

\* runCopyFromLocal: the block names, in order
MintBlkList(filename, fileSize) ==
    [i \in 1..NumBlks(fileSize) |-> generateSegName(filename, i - 1, randCalls + i - 1)]

\* runCopyFromLocal: the lists the loop over Addr2SID can build for one block:
\* the map is ranged over in any order and the loop stops at ReplicationFactor
NodeLists ==
    LET keys == DOMAIN Addr2SID
        k == IF Cardinality(keys) >= ReplicationFactor
             THEN ReplicationFactor ELSE Cardinality(keys)
    IN {s \in [1..k -> keys] : NoDup(s)}

\* runCopyFromLocal: the error returned before anything is minted, "" if none
CopyFromLocalErr(dpath, filename) ==
    IF ~Exists(tree, dpath) THEN "stat"
    ELSE IF ~IsDir(tree, dpath) THEN "not a directory"
    ELSE IF Exists(tree, Append(dpath, filename)) /\ ~IsDir(tree, Append(dpath, filename))
    THEN "File exists"
    ELSE ""

\* a runCopyFromLocal that records the planned holders at once
CopyFromLocalIndexEager(blkList, nodes) ==
    [b \in DOMAIN BlkToDatanodes \cup Range(blkList) |->
        IF b \in Range(blkList)
        THEN [k \in 1..Len(nodes[b]) |-> Addr2SID[nodes[b][k]]]
        ELSE BlkToDatanodes[b]]

\* runCopyFromLocal: BlkToDatanodes after the call; the plan is replied to
\* the client and the map is not written
CopyFromLocalIndex(blkList, nodes) == BlkToDatanodes

\* runCopyFromLocal: os.Create + Write of the block list; on a directory
\* os.Create fails, which is logged only
CopyFromLocalTree(dpath, filename, blkList) ==
    IF IsDir(tree, Append(dpath, filename)) THEN tree
    ELSE Put(tree, Append(dpath, filename), File(Marshal(blkList)))

\* readDfsFile: a missing file or a directory reads as no bytes
readDfsFile(path) ==
    IF Exists(tree, path) /\ ~IsDir(tree, path) THEN Unmarshal(tree[path].text)
    ELSE Unmarshal(<<>>)

\* a runCopyToLocal that replies with the first holder only
CopyToLocalNodesFirst(blkList) ==
    [b \in Range(blkList) |->
        LET sids == Get(BlkToDatanodes, b, <<>>)
        IN IF Len(sids) = 0 THEN <<>> ELSE <<Get(SID2Addr, sids[1], NoAddr)>>]

\* runCopyToLocal: reply.BlkToDataNodes
CopyToLocalNodes(blkList) ==
    [b \in Range(blkList) |->
        LET sids == Get(BlkToDatanodes, b, <<>>)
        IN [k \in 1..Len(sids) |-> Get(SID2Addr, sids[k], NoAddr)]]

\* runLs: [err, Files]
Ls(path) ==
    IF ~Exists(tree, path) THEN [err |-> "No such file or directory", Files |-> {}]
    ELSE IF ~IsDir(tree, path) THEN [err |-> "Not a directory", Files |-> {}]
    ELSE [err |-> "", Files |-> ReadDir(tree, path)]

Frac(n, d) == [num |-> n, den |-> d]
\* two fractions with non-zero denominators are the same number
FracEq(a, b) == a.num * b.den = b.num * a.den
\* the result of dividing 0.0 by 0.0
NaN == [num |-> 0, den |-> 0]

\* RunCommand(CalMeanVar): no handler is running
MvIdle == [pc |-> "idle", path |-> Root, BlkList |-> <<>>, g |-> <<>>,
           red |-> "check", finished |-> 0, totCnt |-> 0, totMean |-> 0,
           totSQ |-> 0, mean |-> NaN, var |-> NaN]

\* a client command other than Format is handled while a Format sleeps
Disturb(f) == [f EXCEPT !.quiet = FALSE]

\* runFormat -> format, up to the sleep in setFormat
FormatBegin ==
    /\ budget > 0
    /\ budget' = budget - 1
    /\ UNCHANGED busy
    /\ tree' = MkdirAll(RemoveAll(tree, Root), Root)
    /\ BlkToDatanodes' = EmptyMap
    /\ NamespaceID' = NamespaceID + 1
    /\ nidFile' = dumpNID(nidFile, NamespaceID + 1)
    /\ Format' = TRUE
    /\ fmt' = [n |-> fmt.n + 1, quiet |-> fmt.n = 0]
    /\ UNCHANGED <<SID2Addr, Addr2SID, RequestBlk, notifying, ids, dnVars, clVars, mv>>

\* setFormat after the sleep; format and runFormat return to the caller
FormatReturn ==
    /\ fmt.n > 0
    /\ Format' = FALSE
    /\ fmt' = [n |-> fmt.n - 1, quiet |-> fmt.quiet /\ fmt.n > 1]
    /\ UNCHANGED <<NamespaceID, BlkToDatanodes, SID2Addr, Addr2SID, RequestBlk,
                   nnDisk, notifying, ids, dnVars, clVars>>
    /\ UNCHANGED <<mv, budget, busy>>

\* RunCommand(Ls)
RunLs(path) ==
    /\ fmt' = Disturb(fmt)
    /\ UNCHANGED <<nnMem, nnDisk, notifying, ids, dnVars, clVars>>
    /\ UNCHANGED <<mv, budget, busy>>

\* the client has run no Mkdir or MkdirP
ShNone == [op |-> "", path |-> Root, err |-> ""]

\* os.Mkdir: the error, "" if none
MkdirErr(t, p) ==
    IF Exists(t, p) THEN "file exists"
    ELSE IF ~Exists(t, SubSeq(p, 1, Len(p) - 1)) THEN "no such file or directory"
    ELSE IF ~IsDir(t, SubSeq(p, 1, Len(p) - 1)) THEN "not a directory"
    ELSE ""

\* an os.Mkdir that makes the directory anew when the path is taken
MkdirOver(t, p) ==
    IF MkdirErr(t, p) \in {"", "file exists"} THEN Put(RemoveAll(t, p), p, Dir) ELSE t

\* os.Mkdir: the parent has to be a directory and the path free
Mkdir(t, p) == IF MkdirErr(t, p) = "" THEN Put(t, p, Dir) ELSE t

\* os.MkdirAll: the error, "" if none; an existing directory is no error
MkdirAllErr(t, p) ==
    IF \E k \in 0..Len(p) : Exists(t, SubSeq(p, 1, k)) /\ ~IsDir(t, SubSeq(p, 1, k))
    THEN "not a directory"
    ELSE ""

\* RunCommand(Mkdir): the error of os.Mkdir is returned
RunMkdir(path) ==
    /\ tree' = Mkdir(tree, path)
    /\ sh' = [op |-> "mkdir", path |-> path, err |-> MkdirErr(tree, path)]
    /\ fmt' = Disturb(fmt)
    /\ UNCHANGED <<nnMem, nidFile, notifying, ids, dnVars, cw, cr, written>>
    /\ UNCHANGED <<mv, budget, busy>>

\* RunCommand(MkdirP): the error of os.MkdirAll is returned
RunMkdirP(path) ==
    /\ tree' = MkdirAll(tree, path)
    /\ sh' = [op |-> "mkdirP", path |-> path, err |-> MkdirAllErr(tree, path)]
    /\ fmt' = Disturb(fmt)
    /\ UNCHANGED <<nnMem, nidFile, notifying, ids, dnVars, cw, cr, written>>
    /\ UNCHANGED <<mv, budget, busy>>

\* notify after its sleep
NotifyExpire ==
    /\ notifying > 0
    /\ RequestBlk' = FALSE
    /\ notifying' = notifying - 1
    /\ UNCHANGED <<NamespaceID, BlkToDatanodes, SID2Addr, Addr2SID, Format,
                   nnDisk, fmt, ids, dnVars, clVars>>
    /\ UNCHANGED <<mv, budget, busy>>

\* the coordinator process is stopped and started again (NewNameNode):
\* its memory and its sleeping goroutines are gone, its disk is kept
NNRestart ==
    /\ budget > 0
    /\ budget' = budget - 1
    /\ UNCHANGED busy
    /\ clock' = clock + 1
    /\ randCalls' = 0
    /\ NamespaceID' = StartNID(nidFile)
    /\ nidFile' = StartNidFile(nidFile)
    /\ tree' = StartTree(tree)
    /\ BlkToDatanodes' = EmptyMap
    /\ SID2Addr' = EmptyMap
    /\ Addr2SID' = EmptyMap
    /\ RequestBlk' = FALSE
    /\ Format' = FALSE
    /\ fmt' = [n |-> 0, quiet |-> FALSE]
    /\ notifying' = 0
    /\ mv' = MvIdle
    /\ UNCHANGED <<dnVars, clVars>>

(***************************************************************************)
(* DataNode: start-up (NewDataNode, Run) and the loops.                     *)
(***************************************************************************)
\* a process that is not running: never started or killed ("down"), or ended
\* by its own log.Fatal ("fatal")
Gone(pc) ==
    [pc |-> pc, NamespaceID |-> -1, StorageID |-> NoSID, Addr |-> NoAddr,
     IDToMetaData |-> EmptyMap, reportDue |-> FALSE]
IsUp(d) == dn[d].pc \notin {"down", "fatal"}
EmptyDisk == [nid |-> NoFile, sid |-> NoFile, meta |-> EmptyMap, act |-> EmptyMap]

\* the zero value of utils.MetaData
ZeroMeta == [Checksum |-> 0, Timestamp |-> 0, Length |-> 0]
\* json.Marshal / json.Unmarshal of a utils.MetaData; the Unmarshal of an
\* empty file fails and leaves the zero value
MetaJSON(m) == <<"Checksum", m.Checksum, "Timestamp", m.Timestamp, "Length", m.Length>>
ParseMeta(t) ==
    IF t = <<>> THEN ZeroMeta
    ELSE [Checksum |-> t[2], Timestamp |-> t[4], Length |-> t[6]]

\* tryReadNamespaceID
tryReadNamespaceID(f) == IF f.ex /\ Atoi(f.text).ok THEN Atoi(f.text).val ELSE -1
\* tryReadStorageID
tryReadStorageID(f) == IF f.ex THEN f.text ELSE NoSID
\* constructInfo / readJSON: the map is rebuilt from the metadata files
constructInfo(meta) == [b \in DOMAIN meta |-> ParseMeta(meta[b])]

\* the data server process serving at address a, if any
Serving(a) == {d \in DN : dn[d].pc = "running" /\ dn[d].Addr = a}

\* NewDataNode (init reads the disk and resolves the address), then Run up
\* to the reply of handshakeWithNameNode; an error reply ends the process
\* (log.Fatal), a new id is written to disk (dumpNID)
DNStart(d) ==
    /\ ~IsUp(d)
    /\ \E a \in AddrsOf(d) :
         LET nid == tryReadNamespaceID(disk[d].nid)
             r == Handshake(nid)
         IN IF r.ok
            THEN /\ dn' = [dn EXCEPT ![d] =
                             [pc |-> "shaken",
                              NamespaceID |-> r.NamespaceID,
                              StorageID |-> tryReadStorageID(disk[d].sid),
                              Addr |-> a,
                              IDToMetaData |-> constructInfo(disk[d].meta),
                              reportDue |-> FALSE]]
                 /\ disk' = IF nid # r.NamespaceID
                            THEN [disk EXCEPT ![d].nid = CreateWith(Itoa(r.NamespaceID))]
                            ELSE disk
            ELSE /\ dn' = [dn EXCEPT ![d] = Gone("fatal")]
                 /\ disk' = disk
    /\ UNCHANGED <<nnMem, nnDisk, nnTimers, ids, clVars>>
    /\ UNCHANGED <<mv, budget, busy>>

\* registerWithNameNode and the coordinator's Register
DNRegister(d) ==
    /\ dn[d].pc = "shaken"
    /\ LET rsid == RegisterSID(d, dn[d].StorageID)
       IN /\ SID2Addr' = RegisterSID2Addr(dn[d].Addr, rsid)
          /\ Addr2SID' = RegisterAddr2SID(dn[d].Addr, rsid)
          /\ randCalls' = IF dn[d].StorageID = NoSID THEN randCalls + 1 ELSE randCalls
          /\ dn' = [dn EXCEPT ![d].pc = "registered", ![d].StorageID = rsid]
          /\ disk' = IF dn[d].StorageID = NoSID
                     THEN [disk EXCEPT ![d].sid = CreateWith(rsid)]
                     ELSE disk
    /\ UNCHANGED <<NamespaceID, BlkToDatanodes, RequestBlk, Format, nnDisk,
                   nnTimers, clock, clVars>>
    /\ UNCHANGED <<mv, budget, busy>>

\* a Run that reports before registerWithNameNode has returned
DNFirstReportEarly(d) ==
    /\ dn[d].pc \in {"shaken", "registered"}
    /\ ReportFits(dn[d].IDToMetaData)
    /\ BlkToDatanodes' = ReportBlock(dn[d].Addr, dn[d].IDToMetaData)
    /\ dn' = [dn EXCEPT ![d].pc = "running", ![d].reportDue = TRUE]
    /\ UNCHANGED <<NamespaceID, SID2Addr, Addr2SID, RequestBlk, Format, nnDisk,
                   nnTimers, ids, disk, clVars>>
    /\ UNCHANGED <<mv, budget, busy>>

\* Run: the first reportBlock, then the loops are started
DNFirstReport(d) ==
    /\ dn[d].pc = "registered"
    /\ ReportFits(dn[d].IDToMetaData)
    /\ BlkToDatanodes' = ReportBlock(dn[d].Addr, dn[d].IDToMetaData)
    /\ dn' = [dn EXCEPT ![d].pc = "running", ![d].reportDue = TRUE]
    /\ UNCHANGED <<NamespaceID, SID2Addr, Addr2SID, RequestBlk, Format, nnDisk,
                   nnTimers, ids, disk, clVars>>
    /\ UNCHANGED <<mv, budget, busy>>

\* reportPeriodically: one sleep of BlkReportInSec, one reportBlock, the end
DNPeriodicReport(d) ==
    /\ dn[d].pc = "running"
    /\ dn[d].reportDue
    /\ ReportFits(dn[d].IDToMetaData)
    /\ BlkToDatanodes' = ReportBlock(dn[d].Addr, dn[d].IDToMetaData)
    /\ dn' = [dn EXCEPT ![d].reportDue = FALSE]
    /\ UNCHANGED <<NamespaceID, SID2Addr, Addr2SID, RequestBlk, Format, nnDisk,
                   nnTimers, ids, disk, clVars>>
    /\ UNCHANGED <<mv, budget, busy>>

\* Run: sendHeartBeat every HeartBeatInSec; HeartBeat replies with nothing set
DNHeartBeat(d) ==
    /\ dn[d].pc = "running"
    /\ UNCHANGED <<nnMem, nnDisk, nnTimers, ids, dnVars, clVars>>
    /\ UNCHANGED <<mv, budget, busy>>

\* the process is killed; its disk stays
DNStop(d) ==
    /\ IsUp(d)
    /\ budget > 0
    /\ budget' = budget - 1
    /\ UNCHANGED busy
    /\ dn' = [dn EXCEPT ![d] = Gone("down")]
    /\ UNCHANGED <<nnMem, nnDisk, nnTimers, ids, disk, clVars, mv>>

(***************************************************************************)
(* Handlers under way.  net/rpc serves every call in a goroutine of its    *)
(* own, so that handlers of one process run side by side; a handler is     *)
(* under way from its first to its last access to the process's memory.    *)
(***************************************************************************)
Call(at, h, by) == [at |-> at, h |-> h, by |-> by]

\* the fields a handler touches, each with TRUE when the handler writes it
Touches(h) ==
    CASE h = "Register" -> {<<"SID2Addr", TRUE>>, <<"Addr2SID", TRUE>>}
      [] h = "ReportBlock" -> {<<"Addr2SID", FALSE>>, <<"BlkToDatanodes", TRUE>>}
      [] h = "SendBlk" -> {<<"IDToMetaData", TRUE>>}
      [] h = "reportBlock" -> {<<"IDToMetaData", FALSE>>}
      [] OTHER -> {}

\* the handlers that touch these fields between mu.Lock and mu.Unlock
Locking == {"SendBlk"}

\* two handlers of one process touch the same field and one of them writes it
Conflict(x, y) ==
    /\ x # y
    /\ x.at = y.at
    /\ \E a \in Touches(x.h), b \in Touches(y.h) : a[1] = b[1] /\ (a[2] \/ b[2])

\* x runs side by side with a handler it conflicts with, not both under mu
Racing(x) ==
    \E y \in busy : Conflict(x, y) /\ ~(x.h \in Locking /\ y.h \in Locking)

\* sync.Mutex: Lock returns when no other handler of the process holds mu
MayEnter(x) ==
    x.h \in Locking => \A y \in busy : ~(y.at = x.at /\ y.h \in Locking)

\* the Go runtime meets a map written while another goroutine uses it
\* ("fatal error: concurrent map writes") and the coordinator process ends;
\* every caller blocked in a call to it dies in log.Fatal; the coordinator is
\* started again
NameNodeThrows ==
    /\ budget > 0
    /\ budget' = budget - 1
    /\ clock' = clock + 1
    /\ randCalls' = 0
    /\ NamespaceID' = StartNID(nidFile)
    /\ nidFile' = StartNidFile(nidFile)
    /\ tree' = StartTree(tree)
    /\ BlkToDatanodes' = EmptyMap
    /\ SID2Addr' = EmptyMap
    /\ Addr2SID' = EmptyMap
    /\ RequestBlk' = FALSE
    /\ Format' = FALSE
    /\ fmt' = [n |-> 0, quiet |-> FALSE]
    /\ notifying' = 0
    /\ mv' = MvIdle
    /\ dn' = [d \in DN |-> IF \E x \in busy : x.at = "nn" /\ x.by = d
                           THEN Gone("fatal") ELSE dn[d]]
    /\ busy' = {x \in busy : x.at # "nn"}
    /\ UNCHANGED <<disk, clVars>>

\* registerWithNameNode: the call is sent and the handler Register starts
RegisterEnter(d) ==
    /\ dn[d].pc = "shaken"
    /\ Call("nn", "Register", d) \notin busy
    /\ MayEnter(Call("nn", "Register", d))
    /\ busy' = busy \cup {Call("nn", "Register", d)}
    /\ UNCHANGED <<nnMem, nnDisk, nnTimers, ids, dnVars, clVars, mv, budget>>

\* Register ends its writes and replies, or the runtime ends the process
RegisterLeave(d) ==
    /\ Call("nn", "Register", d) \in busy
    /\ \/ LET rsid == RegisterSID(d, dn[d].StorageID)
          IN /\ SID2Addr' = RegisterSID2Addr(dn[d].Addr, rsid)
             /\ Addr2SID' = RegisterAddr2SID(dn[d].Addr, rsid)
             /\ randCalls' = IF dn[d].StorageID = NoSID THEN randCalls + 1 ELSE randCalls
             /\ dn' = [dn EXCEPT ![d].pc = "registered", ![d].StorageID = rsid]
             /\ disk' = IF dn[d].StorageID = NoSID
                        THEN [disk EXCEPT ![d].sid = CreateWith(rsid)]
                        ELSE disk
             /\ busy' = busy \ {Call("nn", "Register", d)}
             /\ UNCHANGED <<NamespaceID, BlkToDatanodes, RequestBlk, Format, nnDisk,
                            nnTimers, clock, clVars, mv, budget>>
       \/ /\ Racing(Call("nn", "Register", d))
          /\ NameNodeThrows

\* reportBlock, the first one or the one of reportPeriodically: the call is
\* sent and the handler ReportBlock starts
ReportEnter(d) ==
    /\ dn[d].pc = "registered" \/ (dn[d].pc = "running" /\ dn[d].reportDue)
    /\ Call("nn", "ReportBlock", d) \notin busy
    /\ MayEnter(Call("nn", "ReportBlock", d))
    /\ ReportFits(dn[d].IDToMetaData)
    /\ busy' = busy \cup {Call("nn", "ReportBlock", d)}
    /\ UNCHANGED <<nnMem, nnDisk, nnTimers, ids, dnVars, clVars, mv, budget>>

\* ReportBlock ends its appends and replies, or the runtime ends the process
ReportLeave(d) ==
    /\ Call("nn", "ReportBlock", d) \in busy
    /\ \/ /\ BlkToDatanodes' = ReportBlock(dn[d].Addr, dn[d].IDToMetaData)
          /\ dn' = [dn EXCEPT ![d].pc = "running",
                              ![d].reportDue = (dn[d].pc = "registered")]
          /\ busy' = busy \ {Call("nn", "ReportBlock", d)}
          /\ UNCHANGED <<NamespaceID, SID2Addr, Addr2SID, RequestBlk, Format, nnDisk,
                         nnTimers, ids, disk, clVars, mv, budget>>
       \/ /\ Racing(Call("nn", "ReportBlock", d))
          /\ NameNodeThrows

(***************************************************************************)
(* DataNode: the handlers called by the client (SendBlk, RequestBlk).       *)
(***************************************************************************)
RECURSIVE ChecksumIEEE(_)
\* crc32.ChecksumIEEE, as a checksum over the bytes in order; 0 for no bytes
ChecksumIEEE(data) ==
    IF Len(data) = 0 THEN 0
    ELSE (3 * ChecksumIEEE(SubSeq(data, 1, Len(data) - 1)) + data[Len(data)] + 1) % 251

\* getTimestamp + strconv.ParseInt: the third hyphen-separated field of the
\* BlockID; 0 when that field is no number (a part of the file name)
ParseTimestamp(blkID) == IF Len(blkID) - 3 >= 3 THEN 0 ELSE blkID[3]

\* saveMeta: the metadata kept for the block
NewMeta(blkID, checksum, length) ==
    [Checksum |-> checksum, Timestamp |-> ParseTimestamp(blkID), Length |-> length]

\* SendBlk on data server d: saveMeta, then saveData.  fail is the disk error
\* met, if any: "meta" (the metadata file is not created), "data" (the payload
\* file is not created), "dataWrite" (it is created and its write fails)
DiskErrors == {"meta", "data", "dataWrite"}
SendBlkDn(d, blkID, checksum, length) ==
    [dn EXCEPT ![d].IDToMetaData = Put(@, blkID, NewMeta(blkID, checksum, length))]
SendBlkDiskWith(d, blkID, data, checksum, length, fail) ==
    [disk EXCEPT
       ![d].meta = IF fail = "meta" THEN @
                   ELSE Put(@, blkID, MetaJSON(NewMeta(blkID, checksum, length))),
       ![d].act = IF fail = "data" THEN @
                  ELSE IF fail = "dataWrite" THEN Put(@, blkID, <<>>)
                  ELSE Put(@, blkID, data)]
SendBlkDisk(d, blkID, data, checksum, length) ==
    SendBlkDiskWith(d, blkID, data, checksum, length, "none")
\* SendBlk: the reply, whatever saveMeta and saveData met
SendBlkReply(fail) == [Status |-> TRUE]

\* RequestBlk on data server d: readMeta from memory, readData from disk
RequestBlk_(d, blkID) ==
    [BlkID |-> blkID,
     Data |-> Get(disk[d].act, blkID, <<>>),
     Checksum |-> Get(dn[d].IDToMetaData, blkID, ZeroMeta).Checksum,
     Length |-> Get(dn[d].IDToMetaData, blkID, ZeroMeta).Length]

(***************************************************************************)
(* Client: copyFromLocal.                                                  *)
(***************************************************************************)
\* the local file of n bytes: every byte differs from the others
LocalFile(n) == [i \in 1..n |-> i]

\* file.Read into make([]byte, BlkSize) for the i-th block: the bytes read
BytesRead(src, i) ==
    LET off == (i - 1) * BlkSize
    IN IF off >= Len(src) THEN 0 ELSE Min(BlkSize, Len(src) - off)
\* the buffer after the read: the bytes read, then zeros
Buffer(src, i) ==
    [k \in 1..BlkSize |->
        IF k <= BytesRead(src, i) THEN src[(i - 1) * BlkSize + k] ELSE 0]

\* a checksum over the bytes read only
BlkChecksumOfRead(src, i) ==
    ChecksumIEEE(SubSeq(Buffer(src, i), 1, BytesRead(src, i)))

\* crc32.ChecksumIEEE(data) for the i-th block: over the whole buffer
BlkChecksum(src, i) == ChecksumIEEE(Buffer(src, i))

\* reply1 is the reply of the last SendBlk, last its block and data server
NoReply == [Status |-> FALSE]
CwIdle == [pc |-> "idle", path |-> Root, src |-> <<>>, BlkList |-> <<>>,
           nodes |-> EmptyMap, i |-> 1, j |-> 1, holders |-> {},
           reply1 |-> NoReply, last |-> <<>>]
NoWrite == [valid |-> FALSE, path |-> Root, src |-> <<>>, BlkList |-> <<>>,
            holders |-> {}]

RECURSIVE Norm(_, _, _, _)
\* the next (block, replica) position of the two nested loops at or after (i, j)
Norm(list, nodes, i, j) ==
    IF i > Len(list) THEN <<i, 1>>
    ELSE IF j > Len(nodes[list[i]]) THEN Norm(list, nodes, i + 1, 1)
    ELSE <<i, j>>

\* runCopyFromLocal (client) up to the reply of RunCommand(CopyFromLocal), for
\* a local file holding the bytes src; args.FileSize is the file's size
CWStartWith(dpath, filename, src, fileSize) ==
    /\ cw.pc = "idle"
    /\ cr.pc # "fetch"
    /\ IF CopyFromLocalErr(dpath, filename) # ""
       THEN UNCHANGED <<tree, randCalls, cw, BlkToDatanodes>>
       ELSE LET list == MintBlkList(filename, fileSize)
            IN /\ randCalls + NumBlks(fileSize) <= MaxRand
               /\ \E nodes \in [Range(list) -> NodeLists] :
                    /\ BlkToDatanodes' = CopyFromLocalIndex(list, nodes)
                    /\ cw' = [pc |-> IF Norm(list, nodes, 1, 1)[1] > Len(list)
                                     THEN "notify" ELSE "send",
                              path |-> Append(dpath, filename),
                              src |-> src,
                              BlkList |-> list, nodes |-> nodes,
                              i |-> Norm(list, nodes, 1, 1)[1],
                              j |-> Norm(list, nodes, 1, 1)[2],
                              holders |-> {},
                              reply1 |-> NoReply, last |-> <<>>]
               /\ tree' = CopyFromLocalTree(dpath, filename, list)
               /\ randCalls' = randCalls + NumBlks(fileSize)
    /\ fmt' = Disturb(fmt)
    /\ UNCHANGED <<NamespaceID, SID2Addr, Addr2SID, RequestBlk, Format, nidFile,
                   notifying, clock, dnVars, cr, written, sh>>
    /\ UNCHANGED <<mv, budget, busy>>

\* runCopyFromLocal of a local file of fileSize bytes
CWStart(dpath, filename, fileSize) ==
    CWStartWith(dpath, filename, LocalFile(fileSize), fileSize)

\* one SendBlk of the fan-out; a dial that fails ends the command (log.Fatal)
CWSendWith(fail) ==
    /\ cw.pc = "send"
    /\ LET blk == cw.BlkList[cw.i]
           addr == cw.nodes[blk][cw.j]
           data == Buffer(cw.src, cw.i)
           n == BytesRead(cw.src, cw.i)
           nxt == Norm(cw.BlkList, cw.nodes, cw.i, cw.j + 1)
       IN IF Serving(addr) = {}
          THEN /\ cw' = CwIdle
               /\ UNCHANGED dnVars
          ELSE \E d \in Serving(addr) :
               /\ dn' = SendBlkDn(d, blk, BlkChecksum(cw.src, cw.i), n)
               /\ disk' = SendBlkDiskWith(d, blk, data, BlkChecksum(cw.src, cw.i), n, fail)
               /\ cw' = [cw EXCEPT !.i = nxt[1], !.j = nxt[2],
                                   !.holders = @ \cup {<<blk, d>>},
                                   !.reply1 = SendBlkReply(fail),
                                   !.last = <<blk, d>>,
                                   !.pc = IF nxt[1] > Len(cw.BlkList)
                                          THEN "notify" ELSE "send"]
    /\ UNCHANGED <<nnMem, nnDisk, nnTimers, ids, cr, written, sh, mv>>

\* the SendBlk is served without a disk error
CWSend ==
    /\ CWSendWith("none")
    /\ UNCHANGED <<budget, busy>>

\* a fault of the disk: the SendBlk is served while a file cannot be written
CWSendDiskError ==
    /\ budget > 0
    /\ budget' = budget - 1
    /\ UNCHANGED busy
    /\ cw.pc = "send"
    /\ Serving(cw.nodes[cw.BlkList[cw.i]][cw.j]) # {}
    /\ \E fail \in DiskErrors : CWSendWith(fail)

\* the SendBlk call of the fan-out is sent and the handler starts on d
SendBlkEnter(d) ==
    /\ cw.pc = "send"
    /\ Serving(cw.nodes[cw.BlkList[cw.i]][cw.j]) = {d}
    /\ Call(d, "SendBlk", "cw") \notin busy
    /\ MayEnter(Call(d, "SendBlk", "cw"))
    /\ busy' = busy \cup {Call(d, "SendBlk", "cw")}
    /\ UNCHANGED <<nnMem, nnDisk, nnTimers, ids, dnVars, clVars, mv, budget>>

\* the Go runtime meets IDToMetaData written while another goroutine reads it
\* ("fatal error: concurrent map iteration and map write") and the data server
\* process ends, its SendBlk at any of its file writes; the client blocked in
\* the call dies in log.Fatal
DataNodeThrows(d) ==
    /\ dn' = [dn EXCEPT ![d] = Gone("fatal")]
    /\ \/ disk' = disk
       \/ \E fail \in {"data", "dataWrite", "none"} :
             disk' = SendBlkDiskWith(d, cw.BlkList[cw.i], Buffer(cw.src, cw.i),
                                     BlkChecksum(cw.src, cw.i),
                                     BytesRead(cw.src, cw.i), fail)
    /\ cw' = CwIdle
    /\ busy' = {x \in busy : x.at # d}
    /\ UNCHANGED <<nnMem, nnDisk, nnTimers, ids, cr, written, sh, mv, budget>>

\* SendBlk ends and replies, or the runtime ends the process
SendBlkLeave(d) ==
    /\ Call(d, "SendBlk", "cw") \in busy
    /\ \/ /\ CWSendWith("none")
          /\ busy' = busy \ {Call(d, "SendBlk", "cw")}
          /\ UNCHANGED budget
       \/ /\ Racing(Call(d, "SendBlk", "cw"))
          /\ DataNodeThrows(d)

\* reportPeriodically: after the sleep reportBlock starts to send the map
PeriodicEnter(d) ==
    /\ dn[d].pc = "running"
    /\ dn[d].reportDue
    /\ Call(d, "reportBlock", d) \notin busy
    /\ MayEnter(Call(d, "reportBlock", d))
    /\ busy' = busy \cup {Call(d, "reportBlock", d)}
    /\ UNCHANGED <<nnMem, nnDisk, nnTimers, ids, dnVars, clVars, mv, budget>>

\* the maps reportBlock may send: the map as it is and, beside a SendBlk under
\* way, the map with that block's entry
MapsSeen(d) ==
    {dn[d].IDToMetaData}
    \cup {Put(dn[d].IDToMetaData, cw.BlkList[cw.i],
              NewMeta(cw.BlkList[cw.i], BlkChecksum(cw.src, cw.i),
                      BytesRead(cw.src, cw.i))) :
            x \in {y \in busy : y = Call(d, "SendBlk", "cw")}}

\* reportBlock has sent the map and ReportBlock has handled it, or the
\* runtime ends the process
PeriodicLeave(d) ==
    /\ Call(d, "reportBlock", d) \in busy
    /\ \/ \E m \in MapsSeen(d) :
             /\ ReportFits(m)
             /\ BlkToDatanodes' = ReportBlock(dn[d].Addr, m)
             /\ dn' = [dn EXCEPT ![d].reportDue = FALSE]
             /\ busy' = busy \ {Call(d, "reportBlock", d)}
             /\ UNCHANGED <<NamespaceID, SID2Addr, Addr2SID, RequestBlk, Format,
                            nnDisk, nnTimers, ids, disk, clVars, mv, budget>>
       \/ /\ Racing(Call(d, "reportBlock", d))
          /\ DataNodeThrows(d)

\* DataNode.SendBlk called for a block that data server d stores already, by
\* a client that sends the block once more with the first block of a local
\* file of fileSize bytes as payload
ResendBlk(d, blkID, fileSize) ==
    /\ dn[d].pc = "running"
    /\ blkID \in DOMAIN dn[d].IDToMetaData
    /\ LET src == LocalFile(fileSize)
       IN /\ dn' = SendBlkDn(d, blkID, BlkChecksum(src, 1), BytesRead(src, 1))
          /\ disk' = SendBlkDisk(d, blkID, Buffer(src, 1), BlkChecksum(src, 1),
                                 BytesRead(src, 1))
    /\ UNCHANGED <<nnMem, nnDisk, nnTimers, ids, clVars, mv, budget, busy>>

\* the disk of data server d when its process is killed inside SendBlk: at
\* one of the points between the steps of saveMeta and saveData
CrashDisks(d, blkID, data, checksum, length) ==
    {disk,
     [disk EXCEPT ![d].meta = Put(@, blkID, <<>>)],
     SendBlkDiskWith(d, blkID, data, checksum, length, "data"),
     SendBlkDiskWith(d, blkID, data, checksum, length, "dataWrite"),
     [disk EXCEPT ![d].meta = Put(@, blkID, MetaJSON(NewMeta(blkID, checksum, length))),
                  ![d].act = Put(@, blkID, SubSeq(data, 1, Len(data) - 1))],
     SendBlkDisk(d, blkID, data, checksum, length)}

\* the data server is killed while it serves the SendBlk of the fan-out; the
\* client's call fails and the client ends (log.Fatal)
SendBlkCrash(d) ==
    /\ budget > 0
    /\ budget' = budget - 1
    /\ cw.pc = "send"
    /\ d \in Serving(cw.nodes[cw.BlkList[cw.i]][cw.j])
    /\ disk' \in CrashDisks(d, cw.BlkList[cw.i], Buffer(cw.src, cw.i),
                            BlkChecksum(cw.src, cw.i), BytesRead(cw.src, cw.i))
    /\ dn' = [dn EXCEPT ![d] = Gone("down")]
    /\ cw' = CwIdle
    /\ UNCHANGED <<nnMem, nnDisk, nnTimers, ids, cr, written, sh, mv, busy>>

\* notifyNameNode and the coordinator's Notify, which starts notify
CWNotify ==
    /\ cw.pc = "notify"
    /\ notifying < MaxNotify
    /\ RequestBlk' = TRUE
    /\ notifying' = notifying + 1
    /\ written' = [valid |-> TRUE, path |-> cw.path, src |-> cw.src,
                   BlkList |-> cw.BlkList, holders |-> cw.holders]
    /\ cw' = CwIdle
    /\ UNCHANGED <<NamespaceID, BlkToDatanodes, SID2Addr, Addr2SID, Format,
                   nnDisk, fmt, ids, dnVars, cr, sh>>
    /\ UNCHANGED <<mv, budget, busy>>

(***************************************************************************)
(* Client: copyToLocal.                                                    *)
(***************************************************************************)
\* okBlks and bad are the client's log: the blocks with a line "data is ok",
\* the number of lines "data is corrupted"
CrIdle == [pc |-> "idle", path |-> Root, BlkList |-> <<>>, nodes |-> EmptyMap,
           i |-> 1, j |-> 1, out |-> <<>>, settled |-> FALSE,
           okBlks |-> {}, bad |-> 0]

\* data server d has told the coordinator that it holds block b
Reported(b, d) ==
    /\ disk[d].sid.ex
    /\ disk[d].sid.text \in Range(Get(BlkToDatanodes, b, <<>>))

\* the file read is the one last written, every block of it was stored at
\* least once, and every holder's report has reached the coordinator
Settled(path, list) ==
    /\ written.valid
    /\ written.path = path
    /\ written.BlkList = list
    /\ \A k \in 1..Len(list) : \E h \in written.holders : h[1] = list[k]
    /\ \A h \in written.holders : Reported(h[1], h[2])

\* runCopyToLocal (client) up to os.Create of the local file
CRStart(path) ==
    /\ cr.pc # "fetch"
    /\ cw.pc = "idle"
    /\ LET list == readDfsFile(path)
           nodes == CopyToLocalNodes(list)
       IN /\ cr' = [pc |-> IF Norm(list, nodes, 1, 1)[1] > Len(list)
                           THEN "done" ELSE "fetch",
                    path |-> path, BlkList |-> list, nodes |-> nodes,
                    i |-> Norm(list, nodes, 1, 1)[1],
                    j |-> Norm(list, nodes, 1, 1)[2],
                    out |-> <<>>,
                    settled |-> Settled(path, list),
                    okBlks |-> {}, bad |-> 0]
    /\ fmt' = Disturb(fmt)
    /\ UNCHANGED <<nnMem, nnDisk, notifying, ids, dnVars, cw, written, sh>>
    /\ UNCHANGED <<mv, budget, busy>>

\* a readRemoteBlk that takes every reply as intact
readRemoteBlkUnchecked(d, blk) ==
    LET r == RequestBlk_(d, blk)
    IN [Data |-> r.Data, Length |-> r.Length, ok |-> TRUE]

\* readRemoteBlk after the call to data server d went through: the reply's
\* payload and length when the checksum recomputed over the payload is the
\* reply's checksum, else ([]byte{}, 0, false)
readRemoteBlk(d, blk) ==
    LET r == RequestBlk_(d, blk)
    IN IF ChecksumIEEE(r.Data) # r.Checksum
       THEN [Data |-> <<>>, Length |-> 0, ok |-> FALSE]
       ELSE [Data |-> r.Data, Length |-> r.Length, ok |-> TRUE]

\* one turn of the loop over a block's addresses: an empty address is
\* skipped, else readRemoteBlk, and writeLocalFile when the checksum matches;
\* a dial that fails (log.Fatal) or data[:length] beyond the payload (panic)
\* ends the client
CRFetch ==
    /\ cr.pc = "fetch"
    /\ LET blk == cr.BlkList[cr.i]
           addr == cr.nodes[blk][cr.j]
           nxt == Norm(cr.BlkList, cr.nodes, cr.i, cr.j + 1)
           pc == IF nxt[1] > Len(cr.BlkList) THEN "done" ELSE "fetch"
       IN IF addr = NoAddr
          THEN /\ cr' = [cr EXCEPT !.i = nxt[1], !.j = nxt[2], !.pc = pc]
          ELSE IF Serving(addr) = {}
          THEN /\ cr' = [cr EXCEPT !.pc = "failed"]
          ELSE \E d \in Serving(addr) :
               LET r == readRemoteBlk(d, blk)
               IN IF r.ok /\ r.Length > Len(r.Data)
                  THEN cr' = [cr EXCEPT !.pc = "failed"]
                  ELSE cr' = [cr EXCEPT
                                !.i = nxt[1], !.j = nxt[2], !.pc = pc,
                                !.out = IF r.ok THEN @ \o SubSeq(r.Data, 1, r.Length)
                                        ELSE @,
                                !.okBlks = IF r.ok THEN @ \cup {cr.i} ELSE @,
                                !.bad = IF r.ok THEN @ ELSE @ + 1]
    /\ UNCHANGED <<nnMem, nnDisk, nnTimers, ids, dnVars, cw, written, sh>>
    /\ UNCHANGED <<mv, budget, busy>>

\* a fault of the medium: one byte of a payload file on data server d's disk
\* changes
CorruptBlk(d) ==
    /\ budget > 0
    /\ budget' = budget - 1
    /\ UNCHANGED busy
    /\ \E blk \in DOMAIN disk[d].act :
       \E k \in 1..Len(disk[d].act[blk]) :
          disk' = [disk EXCEPT ![d].act[blk][k] = (@ + 1) % 256]
    /\ UNCHANGED <<nnMem, nnDisk, nnTimers, ids, dn, clVars, mv>>

(***************************************************************************)
(* CalMeanVar: the client's file of integers, the data server's map        *)
(* subtask, the coordinator's dispatch, accumulation and barrier.          *)
(* Bytes are their codes: '0' is 48, the newline is 10.  A float64 is the  *)
(* fraction [num, den] it stands for, its arithmetic taken as exact.       *)
(***************************************************************************)
Newline == 10
Digit0 == 48

RECURSIVE TextOf(_)
\* the file with one integer per line, every line ended by a newline
TextOf(ints) ==
    IF Len(ints) = 0 THEN <<>>
    ELSE TextOf(SubSeq(ints, 1, Len(ints) - 1))
         \o [k \in 1..Len(Itoa(ints[Len(ints)])) |-> Digit0 + Itoa(ints[Len(ints)])[k]]
         \o <<Newline>>

RECURSIVE ScanLines(_, _)
\* bufio.Scanner with ScanLines: the lines of the bytes, cur being the line
\* under way; a last line without newline is a line unless it is empty
ScanLines(bytes, cur) ==
    IF Len(bytes) = 0 THEN (IF Len(cur) = 0 THEN <<>> ELSE <<cur>>)
    ELSE IF bytes[1] = Newline
         THEN <<cur>> \o ScanLines(SubSeq(bytes, 2, Len(bytes)), <<>>)
         ELSE ScanLines(SubSeq(bytes, 2, Len(bytes)), Append(cur, bytes[1]))

\* strconv.Atoi of a line of bytes: [ok, val]
AtoiBytes(line) ==
    IF Len(line) > 0 /\ \A k \in 1..Len(line) : line[k] - Digit0 \in 0..9
    THEN [ok |-> TRUE, val |-> DigitsValue([k \in 1..Len(line) |-> line[k] - Digit0])]
    ELSE [ok |-> FALSE, val |-> 0]

RECURSIVE SumOf(_)
SumOf(xs) == IF Len(xs) = 0 THEN 0 ELSE xs[1] + SumOf(SubSeq(xs, 2, Len(xs)))
SquaresOf(xs) == [k \in 1..Len(xs) |-> xs[k] * xs[k]]

\* cmd/local: the reference computation over the whole file; a line that is
\* no integer counts as 0
LocalMeanVar(src) ==
    LET lines == ScanLines(src, <<>>)
        xs == [k \in 1..Len(lines) |-> AtoiBytes(lines[k]).val]
        cnt == Len(xs)
        tot == SumOf(xs)
        sq == SumOf(SquaresOf(xs))
    IN [cnt |-> cnt,
        mean |-> Frac(tot, cnt),
        var |-> Frac(sq * cnt - tot * tot, cnt * cnt)]

\* the integers of a block's text: the lines that are integers
SelectInts(lines) ==
    LET RECURSIVE Pick(_)
        Pick(k) == IF k > Len(lines) THEN <<>>
                   ELSE IF AtoiBytes(lines[k]).ok
                        THEN <<AtoiBytes(lines[k]).val>> \o Pick(k + 1)
                        ELSE Pick(k + 1)
    IN Pick(1)

\* DataNode.CalMeanVarMap on data server d: count, mean and mean of squares of
\* the integers in the block's payload (its bytes up to the recorded length);
\* no integer at all is the error EmptyBlock
CalMeanVarMap(d, blkID) ==
    LET len == Get(dn[d].IDToMetaData, blkID, ZeroMeta).Length
        data == Get(disk[d].act, blkID, <<>>)
        xs == SelectInts(ScanLines(SubSeq(data, 1, Min(len, Len(data))), <<>>))
    IN IF Len(xs) = 0
       THEN [ok |-> FALSE, Cnt |-> 0, Mean |-> NaN, MeanSQ |-> NaN]
       ELSE [ok |-> TRUE, Cnt |-> Len(xs),
             Mean |-> Frac(SumOf(xs), Len(xs)),
             MeanSQ |-> Frac(SumOf(SquaresOf(xs)), Len(xs))]

\* reply.Mean*float64(reply.Cnt) and reply.MeanSQ*float64(reply.Cnt)
TimesCnt(q, cnt) == (q.num * cnt) \div q.den

\* runCalMeanVar up to the start of the goroutines: the blocks of the file and,
\* for each, the replica list read from BlkToDatanodes
MVStart(path) ==
    /\ mv.pc \in {"idle", "returned"}
    /\ \A i \in 1..Len(mv.g) : mv.g[i].pc = "end"
    /\ cw.pc = "idle"
    /\ cr.pc # "fetch"
    /\ LET list == readDfsFile(path)
       IN mv' = [MvIdle EXCEPT
                   !.pc = "run", !.path = path, !.BlkList = list,
                   !.g = [i \in 1..Len(list) |->
                            [pc |-> "req", ns |-> Get(BlkToDatanodes, list[i], <<>>),
                             k |-> 1, Cnt |-> 0, Mean |-> NaN, MeanSQ |-> NaN,
                             tmp |-> <<>>]]]
    /\ fmt' = Disturb(fmt)
    /\ UNCHANGED <<nnMem, nnDisk, notifying, ids, dnVars, clVars, budget, busy>>

RECURSIVE SkipEmpty(_, _)
\* the next replica at or after position k whose StorageID is not ""
SkipEmpty(ns, k) ==
    IF k > Len(ns) THEN k
    ELSE IF ns[k] = NoSID THEN SkipEmpty(ns, k + 1)
    ELSE k

\* goroutine i: reqCalMeanVar to the next replica of its block.  A dial or a
\* call that fails ends the coordinator (log.Fatal); a reply ends the loop
MVRequest(i) ==
    /\ mv.pc = "run"
    /\ i \in 1..Len(mv.g)
    /\ mv.g[i].pc = "req"
    /\ LET k == SkipEmpty(mv.g[i].ns, mv.g[i].k)
           addr == Get(SID2Addr, mv.g[i].ns[k], NoAddr)
       IN IF k > Len(mv.g[i].ns)
          THEN mv' = [mv EXCEPT !.g[i].pc = "ldFin", !.g[i].k = k]
          ELSE IF Serving(addr) = {}
          THEN mv' = [mv EXCEPT !.pc = "fatal"]
          ELSE \E d \in Serving(addr) :
               LET reply == CalMeanVarMap(d, mv.BlkList[i])
               IN IF ~reply.ok
                  THEN mv' = [mv EXCEPT !.pc = "fatal"]
                  ELSE mv' = [mv EXCEPT !.g[i].pc = "ldTot", !.g[i].k = k,
                                        !.g[i].Cnt = reply.Cnt,
                                        !.g[i].Mean = reply.Mean,
                                        !.g[i].MeanSQ = reply.MeanSQ]
    /\ UNCHANGED <<nnMem, nnDisk, nnTimers, ids, dnVars, clVars, budget, busy>>

\* goroutine i reads what it is about to add to, no lock held: the three
\* totals after a reply, finished after its loop
MVLoad(i) ==
    /\ mv.pc = "run"
    /\ i \in 1..Len(mv.g)
    /\ mv.g[i].pc \in {"ldTot", "ldFin"}
    /\ mv' = IF mv.g[i].pc = "ldTot"
             THEN [mv EXCEPT !.g[i].tmp = <<mv.totCnt, mv.totMean, mv.totSQ>>,
                             !.g[i].pc = "stTot"]
             ELSE [mv EXCEPT !.g[i].tmp = <<mv.finished>>, !.g[i].pc = "stFin"]
    /\ UNCHANGED <<nnMem, nnDisk, nnTimers, ids, dnVars, clVars, budget, busy>>

\* goroutine i writes the sums back: totCnt +=, totMean +=, totSQ += after a
\* reply, finished++ after its loop
MVStore(i) ==
    /\ mv.pc = "run"
    /\ i \in 1..Len(mv.g)
    /\ mv.g[i].pc \in {"stTot", "stFin"}
    /\ mv' = IF mv.g[i].pc = "stTot"
             THEN [mv EXCEPT
                     !.totCnt = mv.g[i].tmp[1] + mv.g[i].Cnt,
                     !.totMean = mv.g[i].tmp[2] + TimesCnt(mv.g[i].Mean, mv.g[i].Cnt),
                     !.totSQ = mv.g[i].tmp[3] + TimesCnt(mv.g[i].MeanSQ, mv.g[i].Cnt),
                     !.g[i].pc = "ldFin"]
             ELSE [mv EXCEPT !.finished = mv.g[i].tmp[1] + 1, !.g[i].pc = "bcast"]
    /\ UNCHANGED <<nnMem, nnDisk, nnTimers, ids, dnVars, clVars, budget, busy>>

\* goroutine i: cond.Broadcast() wakes the reducer only if it is waiting
MVBroadcast(i) ==
    /\ mv.pc = "run"
    /\ i \in 1..Len(mv.g)
    /\ mv.g[i].pc = "bcast"
    /\ mv' = [mv EXCEPT !.g[i].pc = "end",
                        !.red = IF mv.red = "waiting" THEN "check" ELSE @]
    /\ UNCHANGED <<nnMem, nnDisk, nnTimers, ids, dnVars, clVars, budget, busy>>

\* the reducer, holding mu, tests finished != len(blkList); when equal it
\* divides, takes the variance and returns
MVReduce ==
    /\ mv.pc = "run"
    /\ mv.red = "check"
    /\ IF mv.finished # Len(mv.BlkList)
       THEN mv' = [mv EXCEPT !.red = "towait"]
       ELSE mv' = [mv EXCEPT
                     !.pc = "returned",
                     !.mean = IF mv.totCnt = 0 THEN NaN
                              ELSE Frac(mv.totMean, mv.totCnt),
                     !.var = IF mv.totCnt = 0 THEN NaN
                             ELSE Frac(mv.totSQ * mv.totCnt - mv.totMean * mv.totMean,
                                       mv.totCnt * mv.totCnt)]
    /\ UNCHANGED <<nnMem, nnDisk, nnTimers, ids, dnVars, clVars, budget, busy>>

\* cond.Wait(): the reducer joins the waiters and releases mu
MVWait ==
    /\ mv.pc = "run"
    /\ mv.red = "towait"
    /\ mv' = [mv EXCEPT !.red = "waiting"]
    /\ UNCHANGED <<nnMem, nnDisk, nnTimers, ids, dnVars, clVars, budget, busy>>

\* the local files of integers that CalMeanVar is run on
TextFiles == {<<>>, <<1>>, <<1, 2>>, <<12>>, <<121>>}

(***************************************************************************)
(* The cluster.                                                            *)
(***************************************************************************)
\* the cluster before any process has run, the coordinator constructed over
\* the nid file f
InitOver(f) ==
    /\ NamespaceID = StartNID(f)
    /\ nidFile = StartNidFile(f)
    /\ tree = StartTree(EmptyTree)
    /\ BlkToDatanodes = EmptyMap
    /\ SID2Addr = EmptyMap
    /\ Addr2SID = EmptyMap
    /\ RequestBlk = FALSE
    /\ Format = FALSE
    /\ fmt = [n |-> 0, quiet |-> FALSE]
    /\ notifying = 0
    /\ clock = StartTime
    /\ randCalls = 0
    /\ dn = [d \in DN |-> Gone("down")]
    /\ disk = [d \in DN |-> EmptyDisk]
    /\ cw = CwIdle
    /\ cr = CrIdle
    /\ written = NoWrite
    /\ mv = MvIdle
    /\ sh = ShNone
    /\ busy = {}

\* a first run of the coordinator
Init ==
    /\ InitOver(NoFile)
    /\ budget = MaxFaults

Next ==
    \/ FormatBegin
    \/ FormatReturn
    \/ RunLs(Root)
    \/ NotifyExpire
    \/ NNRestart
    \/ \E d \in DN : DNStart(d)
    \/ \E d \in DN : DNRegister(d)
    \/ \E d \in DN : DNFirstReport(d)
    \/ \E d \in DN : DNPeriodicReport(d)
    \/ \E d \in DN : DNHeartBeat(d)
    \/ \E d \in DN : DNStop(d)
    \/ \E name \in FileNames : CWStart(Root, name, 1)
    \/ CWSend
    \/ CWNotify

Spec == Init /\ [][Next]_vars

\* the write and read paths with data servers that come and go; the
\* coordinator runs on and is not formatted
NextRW ==
    \/ \E d \in DN : DNStart(d)
    \/ \E d \in DN : DNRegister(d)
    \/ \E d \in DN : DNFirstReport(d)
    \/ \E d \in DN : DNPeriodicReport(d)
    \/ \E d \in DN : DNStop(d)
    \/ \E name \in FileNames, size \in 0..MaxFileSize : CWStart(Root, name, size)
    \/ CWSend
    \/ CWNotify
    \/ NotifyExpire
    \/ \E name \in FileNames : CRStart(<<name>>)
    \/ CRFetch

SpecRW == Init /\ [][NextRW]_vars

\* membership and epochs without client writes: the coordinator starts on a
\* fresh disk or on one left at epoch OldEpoch by an earlier run
InitEpoch ==
    /\ \E f \in {NoFile, CreateWith(Itoa(OldEpoch))} : InitOver(f)
    /\ budget = MaxFaults + 1

NextEpoch ==
    \/ FormatBegin
    \/ FormatReturn
    \/ RunLs(Root)
    \/ NNRestart
    \/ \E d \in DN : DNStart(d)
    \/ \E d \in DN : DNRegister(d)
    \/ \E d \in DN : DNFirstReport(d)
    \/ \E d \in DN : DNPeriodicReport(d)
    \/ \E d \in DN : DNHeartBeat(d)
    \/ \E d \in DN : DNStop(d)

SpecEpoch == InitEpoch /\ [][NextEpoch]_vars

\* the cluster left to itself: no process is killed and nothing is formatted;
\* every step of a running data server and of a client command under way is
\* taken in the end, the notify goroutine wakes up
InitLive ==
    /\ InitOver(NoFile)
    /\ budget = 0

NextLive ==
    \/ \E d \in DN : DNStart(d)
    \/ \E d \in DN : DNRegister(d)
    \/ \E d \in DN : DNFirstReport(d)
    \/ \E d \in DN : DNPeriodicReport(d)
    \/ \E d \in DN : DNHeartBeat(d)
    \/ \E name \in FileNames, size \in 1..MaxFileSize : CWStart(Root, name, size)
    \/ CWSend
    \/ CWNotify
    \/ NotifyExpire

Fairness ==
    /\ \A d \in DN : WF_vars(DNRegister(d))
    /\ \A d \in DN : WF_vars(DNFirstReport(d))
    /\ \A d \in DN : WF_vars(DNPeriodicReport(d))
    /\ WF_vars(CWSend)
    /\ WF_vars(CWNotify)
    /\ WF_vars(NotifyExpire)

LiveSpec == InitLive /\ [][NextLive]_vars /\ Fairness

\* a cluster of data servers that is formatted and then left to itself: no
\* process is killed; every step of a running data server is taken in the
\* end and the Format's sleep ends
NextFence ==
    \/ FormatBegin
    \/ FormatReturn
    \/ \E d \in DN : DNStart(d)
    \/ \E d \in DN : DNRegister(d)
    \/ \E d \in DN : DNFirstReport(d)
    \/ \E d \in DN : DNPeriodicReport(d)
    \/ \E d \in DN : DNHeartBeat(d)

FenceFairness ==
    /\ WF_vars(FormatReturn)
    /\ \A d \in DN : WF_vars(DNRegister(d))
    /\ \A d \in DN : WF_vars(DNFirstReport(d))
    /\ \A d \in DN : WF_vars(DNPeriodicReport(d))
    /\ \A d \in DN : WF_vars(DNHeartBeat(d))

SpecFence == Init /\ [][NextFence]_vars /\ FenceFairness

\* a cluster in which a data server is killed and the rest runs on: every
\* step of a running data server and of a write under way is taken in the
\* end; nobody is bound to start a data server again
NextDead ==
    \/ \E d \in DN : DNStart(d)
    \/ \E d \in DN : DNRegister(d)
    \/ \E d \in DN : DNFirstReport(d)
    \/ \E d \in DN : DNPeriodicReport(d)
    \/ \E d \in DN : DNHeartBeat(d)
    \/ \E d \in DN : DNStop(d)
    \/ \E name \in FileNames : CWStart(Root, name, 1)
    \/ CWSend
    \/ CWNotify
    \/ NotifyExpire

SpecDead == Init /\ [][NextDead]_vars /\ Fairness

\* the coordinator serving the calls of two data servers that join, every
\* call in a goroutine of its own
NextMu ==
    \/ \E d \in DN : DNStart(d)
    \/ \E d \in DN : RegisterEnter(d)
    \/ \E d \in DN : RegisterLeave(d)
    \/ \E d \in DN : ReportEnter(d)
    \/ \E d \in DN : ReportLeave(d)
    \/ \E d \in DN : DNHeartBeat(d)

SpecMu == Init /\ [][NextMu]_vars

\* a data server serving a client's SendBlk calls while its report goroutine
\* runs, every call in a goroutine of its own
NextDmu ==
    \/ \E d \in DN : DNStart(d)
    \/ \E d \in DN : DNRegister(d)
    \/ \E d \in DN : DNFirstReport(d)
    \/ \E d \in DN : PeriodicEnter(d)
    \/ \E d \in DN : PeriodicLeave(d)
    \/ \E name \in FileNames : CWStart(Root, name, 1)
    \/ \E d \in DN : SendBlkEnter(d)
    \/ \E d \in DN : SendBlkLeave(d)
    \/ CWNotify
    \/ NotifyExpire

SpecDmu == Init /\ [][NextDmu]_vars

\* the blocks a coordinator can mint for the files written
BlkIDs ==
    {<<n[1], i, t, r>> : n \in FileNames, i \in 0..MaxFileSize,
                         t \in StartTime..StartTime + MaxFaults, r \in 0..MaxRand}

\* the write path with clients that send a block again
NextOver ==
    \/ \E d \in DN : DNStart(d)
    \/ \E d \in DN : DNRegister(d)
    \/ \E d \in DN : DNFirstReport(d)
    \/ \E d \in DN : DNPeriodicReport(d)
    \/ \E name \in FileNames, size \in 1..MaxFileSize : CWStart(Root, name, size)
    \/ CWSend
    \/ CWNotify
    \/ NotifyExpire
    \/ \E d \in DN, blkID \in BlkIDs, size \in 1..MaxFileSize :
          ResendBlk(d, blkID, size)

SpecOver == Init /\ [][NextOver]_vars

\* the write path with a data server that is killed inside SendBlk and
\* started again
NextCrash ==
    \/ \E d \in DN : DNStart(d)
    \/ \E d \in DN : DNRegister(d)
    \/ \E d \in DN : DNFirstReport(d)
    \/ \E d \in DN : DNPeriodicReport(d)
    \/ \E name \in FileNames, size \in 1..MaxFileSize : CWStart(Root, name, size)
    \/ CWSend
    \/ \E d \in DN : SendBlkCrash(d)
    \/ CWNotify
    \/ NotifyExpire

SpecCrash == Init /\ [][NextCrash]_vars

\* file names with a hyphen: the name a-b is the sequence of its parts
HyphenNames == {<<"a", "b">>}

\* the write path for files whose names may hold hyphens
NextTS ==
    \/ \E d \in DN : DNStart(d)
    \/ \E d \in DN : DNRegister(d)
    \/ \E d \in DN : DNFirstReport(d)
    \/ \E d \in DN : DNPeriodicReport(d)
    \/ \E name \in FileNames \cup HyphenNames, size \in 1..MaxFileSize :
          CWStart(Root, name, size)
    \/ CWSend
    \/ CWNotify
    \/ NotifyExpire

SpecTS == Init /\ [][NextTS]_vars

\* the read path over payloads that rot: the write and read paths with data
\* servers that come and go, and payload files that get corrupted
NextRC ==
    \/ \E d \in DN : DNStart(d)
    \/ \E d \in DN : DNRegister(d)
    \/ \E d \in DN : DNFirstReport(d)
    \/ \E d \in DN : DNPeriodicReport(d)
    \/ \E d \in DN : DNStop(d)
    \/ \E d \in DN : CorruptBlk(d)
    \/ \E name \in FileNames, size \in 1..MaxFileSize : CWStart(Root, name, size)
    \/ CWSend
    \/ CWNotify
    \/ NotifyExpire
    \/ \E name \in FileNames : CRStart(<<name>>)
    \/ CRFetch

SpecRC == Init /\ [][NextRC]_vars

\* the write path over disks that fail: data servers that come and go, and
\* SendBlk calls that meet a disk error
NextDisk ==
    \/ \E d \in DN : DNStart(d)
    \/ \E d \in DN : DNRegister(d)
    \/ \E d \in DN : DNFirstReport(d)
    \/ \E d \in DN : DNPeriodicReport(d)
    \/ \E d \in DN : DNStop(d)
    \/ \E name \in FileNames, size \in 1..MaxFileSize : CWStart(Root, name, size)
    \/ CWSend
    \/ CWSendDiskError
    \/ CWNotify
    \/ NotifyExpire

SpecDisk == Init /\ [][NextDisk]_vars

\* the namespace: directories are made, files are written into Root, into a
\* directory, into a file and into nothing, on one data server
OtherNames == {<<"g">>}
NextNS ==
    \/ DNStart("d1")
    \/ DNRegister("d1")
    \/ DNFirstReport("d1")
    \/ DNPeriodicReport("d1")
    \/ \E name \in FileNames \cup OtherNames : RunMkdir(<<name>>)
    \/ \E dir \in {Root} \cup {<<n>> : n \in FileNames \cup OtherNames},
          name \in FileNames \cup OtherNames :
            CWStart(dir, name, 1)
    \/ CWSend
    \/ CWNotify
    \/ NotifyExpire
    \/ \E name \in FileNames \cup OtherNames : CRStart(<<name>>)
    \/ CRFetch

SpecNS == Init /\ [][NextNS]_vars

\* directories: Mkdir and MkdirP on paths of one and two names, free, taken by
\* a directory or taken by a file that a copyFromLocal has made
DirPaths ==
    {<<n>> : n \in FileNames \cup OtherNames}
    \cup {<<n, m>> : n \in OtherNames, m \in FileNames}
NextDir ==
    \/ \E path \in DirPaths : RunMkdir(path)
    \/ \E path \in DirPaths : RunMkdirP(path)
    \/ \E dir \in {Root} \cup {<<n>> : n \in OtherNames}, name \in FileNames :
          CWStart(dir, name, 1)
    \/ CWNotify
    \/ NotifyExpire

SpecDir == Init /\ [][NextDir]_vars

\* CalMeanVar over files of integers: one data server starts, registers,
\* reports and may stop, the client writes a file and asks for its statistics;
\* nothing more happens once log.Fatal has ended the coordinator
InitMV ==
    /\ InitOver(NoFile)
    /\ budget = MaxFaults

\* the coordinator process is running
Alive == mv.pc # "fatal"

NextMV ==
    \/ Alive /\ DNStart("d1")
    \/ Alive /\ DNRegister("d1")
    \/ Alive /\ DNFirstReport("d1")
    \/ Alive /\ DNPeriodicReport("d1")
    \/ Alive /\ DNStop("d1")
    \/ Alive /\ \E name \in FileNames, ints \in TextFiles :
                  CWStartWith(Root, name, TextOf(ints), Len(TextOf(ints)))
    \/ Alive /\ CWSend
    \/ Alive /\ CWNotify
    \/ Alive /\ NotifyExpire
    \/ \E name \in FileNames : MVStart(<<name>>)
    \/ \E i \in 1..MaxRand : MVRequest(i)
    \/ \E i \in 1..MaxRand : MVLoad(i)
    \/ \E i \in 1..MaxRand : MVStore(i)
    \/ \E i \in 1..MaxRand : MVBroadcast(i)
    \/ MVReduce
    \/ MVWait

SpecMV == InitMV /\ [][NextMV]_vars

(***************************************************************************)
(* Properties.                                                             *)
(***************************************************************************)
\* C3 (Handshake rule): a data server's Handshake is accepted exactly when the
\* namespace id it carries is -1 or the coordinator's current one; an accepted
\* caller gets the coordinator's current id, a refused caller gets an error
\* (and ends); the call changes nothing on the coordinator.  So a server
\* still carrying the id from before a Format is refused.
C3_HandshakeRule ==
    [][\A d \in DN :
         (~IsUp(d) /\ dn'[d] # dn[d]) =>
            LET nid == tryReadNamespaceID(disk[d].nid)
            IN /\ (dn'[d].pc = "shaken") <=> (nid = -1 \/ nid = NamespaceID)
               /\ dn'[d].pc = "shaken" => dn'[d].NamespaceID = NamespaceID
               /\ dn'[d].pc # "shaken" => dn'[d].pc = "fatal"
               /\ UNCHANGED <<nnMem, nnDisk>>]_vars

\* a data server that kept the id from before a Format was refused
C3_Witness ==
    \E d \in DN :
        /\ dn[d].pc = "fatal"
        /\ tryReadNamespaceID(disk[d].nid) # -1
        /\ tryReadNamespaceID(disk[d].nid) < NamespaceID

C8_Register ==
    [][\A d \in DN :
         (dn[d].pc = "shaken" /\ dn'[d].pc = "registered") =>
            LET given == dn[d].StorageID
                got == dn'[d].StorageID
                addr == dn[d].Addr
            IN /\ given # NoSID => got = given
               /\ given = NoSID => (got # NoSID /\ got \notin DOMAIN SID2Addr)
               /\ got \in DOMAIN SID2Addr' /\ SID2Addr'[got] = addr
               /\ addr \in DOMAIN Addr2SID' /\ Addr2SID'[addr] = got]_vars

\* a data server registered the StorageID it kept on disk from a new address
C8_Witness ==
    \E d \in DN :
        /\ dn[d].pc = "registered"
        /\ \E a \in DOMAIN Addr2SID :
              a # dn[d].Addr /\ Addr2SID[a] = dn[d].StorageID

\* C4 (placement plan): every block of a CopyFromLocal reply gets exactly
\* min(ReplicationFactor, liveN) addresses, pairwise distinct, where liveN is
\* the number of registered data servers (the StorageIDs registered).
C4_PlanSize ==
    [][(cw.pc = "idle" /\ cw'.pc # "idle") =>
          \A b \in DOMAIN cw'.nodes :
              /\ Len(cw'.nodes[b]) =
                    Min(ReplicationFactor, Cardinality(DOMAIN SID2Addr))
              /\ NoDup(cw'.nodes[b])]_vars

\* C5 (BlockIndex entries are mapped): every StorageID listed in
\* BlkToDatanodes is non-empty and SID2Addr maps it to a non-empty address.
C5_IndexMapped ==
    \A b \in DOMAIN BlkToDatanodes :
        \A k \in 1..Len(BlkToDatanodes[b]) :
            /\ BlkToDatanodes[b][k] # NoSID
            /\ Get(SID2Addr, BlkToDatanodes[b][k], NoAddr) # NoAddr

\* C7 (CopyFromLocal leaves BlockIndex alone): the step in which the
\* coordinator answers a CopyFromLocal does not change BlkToDatanodes and the
\* blocks it minted have no entry; an entry appears or grows only in a step
\* in which a data server holding that block reports.
C7_IndexOnlyByReport ==
    [][/\ (cw.pc = "idle" /\ cw'.pc # "idle") =>
              /\ BlkToDatanodes' = BlkToDatanodes
              /\ \A k \in 1..Len(cw'.BlkList) :
                     cw'.BlkList[k] \notin DOMAIN BlkToDatanodes'
       /\ \A b \in DOMAIN BlkToDatanodes' :
              (Len(BlkToDatanodes'[b]) > Len(Get(BlkToDatanodes, b, <<>>))
               \/ b \notin DOMAIN BlkToDatanodes) =>
                 \E d \in DN :
                     /\ b \in DOMAIN dn[d].IDToMetaData
                     /\ \/ dn[d].pc = "registered" /\ dn'[d].pc = "running"
                        \/ dn[d].pc = "running" /\ dn[d].reportDue
                                                /\ ~dn'[d].reportDue]_vars

\* every replica of a written file is stored, no report has named its
\* blocks yet, and BlkToDatanodes has no entry for them
C7_Witness ==
    /\ cw.pc = "notify"
    /\ cw.holders # {}
    /\ \A k \in 1..Len(cw.BlkList) : cw.BlkList[k] \notin DOMAIN BlkToDatanodes

\* C9 (Format returns on an empty coordinator): in the step in which a Format
\* returns to its caller, no other client command having been handled since
\* it began, BlkToDatanodes is empty and Ls of the root replies no names.
C9_FormatReturnsEmpty ==
    [][(fmt'.n < fmt.n /\ clock' = clock /\ fmt.quiet) =>
          /\ BlkToDatanodes' = EmptyMap
          /\ Ls(Root)' = [err |-> "", Files |-> {}]]_vars

\* C1 (write/read round trip): a copyToLocal that ran to its end, of the file
\* last written by a copyFromLocal whose every SendBlk succeeded, begun after
\* every holder of a replica had reported it, wrote exactly the source bytes.
C1_RoundTrip ==
    (cr.pc = "done" /\ cr.settled) => cr.out = written.src

\* C2 (BlockIndex convergence): once a copyFromLocal has sent every replica
\* and notified the coordinator, in the end the StorageID of every data
\* server that stored a block is listed in BlkToDatanodes for that block.
C2_Convergence ==
    written.valid ~> (\A h \in written.holders : Reported(h[1], h[2]))

MVAnswered ==
    /\ mv.pc = "returned"
    /\ written.valid
    /\ mv.path = written.path
    /\ Len(mv.BlkList) = Len(written.BlkList)
    /\ \A i \in 1..Len(mv.g) : mv.g[i].k <= Len(mv.g[i].ns)
    /\ mv.totCnt = SumOf([i \in 1..Len(mv.g) |-> mv.g[i].Cnt])
    /\ mv.totMean = SumOf([i \in 1..Len(mv.g) |-> TimesCnt(mv.g[i].Mean, mv.g[i].Cnt)])
    /\ mv.totSQ = SumOf([i \in 1..Len(mv.g) |-> TimesCnt(mv.g[i].MeanSQ, mv.g[i].Cnt)])
C11_WholeFileStatistics ==
    MVAnswered =>
        /\ mv.totCnt = LocalMeanVar(written.src).cnt
        /\ FracEq(mv.mean, LocalMeanVar(written.src).mean)
        /\ FracEq(mv.var, LocalMeanVar(written.src).var)

\* a step of the CalMeanVar handler: of a map goroutine or of the reducer
MVStep ==
    \/ \E i \in 1..MaxRand : MVRequest(i) \/ MVLoad(i) \/ MVStore(i) \/ MVBroadcast(i)
    \/ MVReduce
    \/ MVWait

\* C12: a CalMeanVar handler that has not returned can take a step, under every
\* interleaving of the map goroutines with the reducer: the reducer is never
\* left waiting for a signal that no goroutine is going to send.
C12_BarrierTerminates == mv.pc = "run" => ENABLED MVStep

\* C13: CalMeanVar returns a mean and variance (its only way of returning) only
\* when every block of the file was answered by one of its replicas, and no
\* failing map subtask ends the coordinator.
C13_FailureReported ==
    /\ mv.pc # "fatal"
    /\ mv.pc = "returned" => \A i \in 1..Len(mv.g) : mv.g[i].k <= Len(mv.g[i].ns)

IntactAt(a, i) ==
    \E d \in Serving(a) :
        /\ readRemoteBlk(d, written.BlkList[i]).ok
        /\ readRemoteBlk(d, written.BlkList[i]).Data = Buffer(written.src, i)
        /\ readRemoteBlk(d, written.BlkList[i]).Length = BytesRead(written.src, i)
\* the copyToLocal under way or ended reads the file last written, and every
\* block has, among the addresses the coordinator listed, a reachable replica
\* with an intact payload
ReadableEverywhere ==
    /\ cr.pc \in {"fetch", "done", "failed"}
    /\ written.valid
    /\ cr.path = written.path
    /\ cr.BlkList = written.BlkList
    /\ \A i \in 1..Len(cr.BlkList) :
         \E j \in 1..Len(cr.nodes[cr.BlkList[i]]) : IntactAt(cr.nodes[cr.BlkList[i]][j], i)

\* C16: a turn of copyToLocal's loop taken while each block of the file has a
\* reachable, intact replica among those listed does not end the command
\* without the file, on another replica that is unreachable or corrupted.
C16_Failover ==
    [][(cr.pc = "fetch" /\ ReadableEverywhere) => cr'.pc # "failed"]_vars

\* C17: a copyToLocal that ends as a success (it runs to its end; it has no
\* other way to tell the user) has written an intact copy of every block of
\* the file to the local file.
C17_MissingBlockSurfaced ==
    cr.pc = "done" => \A i \in 1..Len(cr.BlkList) : i \in cr.okBlks

\* C19: the reply of the last SendBlk is ok only if the data server's disk
\* holds both files of the block: the metadata file and the payload file, with
\* what was sent.
C19_OkOnlyIfWritten ==
    (cw.pc \in {"send", "notify"} /\ cw.reply1.Status) =>
        LET blk == cw.last[1]
            d == cw.last[2]
            i == CHOOSE k \in 1..Len(cw.BlkList) : cw.BlkList[k] = blk
        IN /\ blk \in DOMAIN disk[d].meta
           /\ blk \in DOMAIN disk[d].act
           /\ disk[d].act[blk] = Buffer(cw.src, i)
           /\ ParseMeta(disk[d].meta[blk]).Checksum = BlkChecksum(cw.src, i)
           /\ ParseMeta(disk[d].meta[blk]).Length = BytesRead(cw.src, i)

\* what RequestBlk has to return for block i of a file with the bytes src
BlkSent(list, src, i) ==
    [BlkID |-> list[i], Data |-> Buffer(src, i),
     Checksum |-> BlkChecksum(src, i), Length |-> BytesRead(src, i)]

\* C18: once SendBlk(b, data, checksum, length) has returned ok on a data
\* server, RequestBlk(b) on that server, whenever it runs, returns exactly
\* (b, data, checksum, length): for the write under way and for the last one
\* that ended.
C18_ReadYourWrite ==
    /\ \A h \in cw.holders :
         dn[h[2]].pc = "running" =>
            \A i \in 1..Len(cw.BlkList) :
               cw.BlkList[i] = h[1] =>
                  RequestBlk_(h[2], h[1]) = BlkSent(cw.BlkList, cw.src, i)
    /\ \A h \in written.holders :
         dn[h[2]].pc = "running" =>
            \A i \in 1..Len(written.BlkList) :
               written.BlkList[i] = h[1] =>
                  RequestBlk_(h[2], h[1]) = BlkSent(written.BlkList, written.src, i)

\* C20: a RunCommand(CopyFromLocal) that is answered with a plan (it did not
\* fail) found the destination an existing directory with no entry of the new
\* file's name, of any type, and has created the file entry that holds the
\* BlockList of the plan.
C20_CopyFromLocalChecks ==
    [][(cw.pc = "idle" /\ cw'.pc \in {"send", "notify"}) =>
         LET p == cw'.path
         IN /\ IsDir(tree, SubSeq(p, 1, Len(p) - 1))
            /\ ~Exists(tree, p)
            /\ Exists(tree', p)
            /\ ~IsDir(tree', p)
            /\ Unmarshal(tree'[p].text) = cw'.BlkList]_vars

\* C21: a CopyFromLocal that is answered with a plan has minted
\* ceil(fileSize / BlkSize) block names: none for an empty file, k for k full
\* blocks, k + 1 for any size strictly between k and k + 1 blocks.
C21_NumBlocksIsCeiling ==
    [][(cw.pc = "idle" /\ cw'.pc \in {"send", "notify"}) =>
         Len(cw'.BlkList) = (Len(cw'.src) + BlkSize - 1) \div BlkSize]_vars

\* the index field of a BlockID: filename-index-timestamp-random
BlkIndexOf(blk) == blk[Len(blk) - 2]

\* C22: a CopyToLocal of the file last written (no Rm, Rmdir or Format has
\* run) is answered with the BlockList of the write's reply, in the same
\* order, and the i-th BlockID carries the index i, counted from 0.
C22_BlockListRoundTrip ==
    [][(cr.pc # "fetch" /\ cr' # cr /\ cr'.pc \in {"fetch", "done"}
        /\ written.valid /\ cr'.path = written.path) =>
          /\ cr'.BlkList = written.BlkList
          /\ \A i \in 1..Len(cr'.BlkList) : BlkIndexOf(cr'.BlkList[i]) = i - 1]_vars

C24_IndexEntriesAreSets ==
    \A b \in DOMAIN BlkToDatanodes :
        NoDup(BlkToDatanodes[b])

\* C25: a block report of a data server whose epoch is not the coordinator's
\* current one (it shook hands before a Format and not since) adds nothing
\* to BlkToDatanodes.
C25_StaleReportRejected ==
    [][\A d \in DN :
         (/\ IsUp(d)
          /\ dn[d].NamespaceID # NamespaceID
          /\ (DNFirstReport(d) \/ DNPeriodicReport(d))) =>
             BlkToDatanodes' = BlkToDatanodes]_vars

\* C26: a Format leaves no registration behind: when format has run,
\* SID2Addr and Addr2SID are empty, so that a plan made before any data
\* server registers again holds no address.
C26_FormatForgetsMembers ==
    [][FormatBegin => (SID2Addr' = EmptyMap /\ Addr2SID' = EmptyMap)]_vars

\* C27: a data server that runs as a member when the coordinator is formatted
\* shakes hands again in the end: it holds the new epoch, has written it to
\* its nid file and is a running member again.
C27_RejoinsAfterFormat ==
    \A d \in DN :
        (dn[d].pc = "running" /\ dn[d].NamespaceID # NamespaceID)
            ~> (/\ dn[d].pc = "running"
                /\ dn[d].NamespaceID = NamespaceID
                /\ tryReadNamespaceID(disk[d].nid) = NamespaceID)

\* data server d has registered and runs
Member(d) == dn[d].pc \in {"registered", "running"}
\* the addresses of data server d that the coordinator draws plans from
PlannedAddrs(d) == AddrsOf(d) \cap DOMAIN Addr2SID

\* C28: when a registered data server is gone and sends no heartbeat, the
\* coordinator drops its address in the end, so that no plan lists it, unless
\* the data server registers again.
C28_SilentServerIsDead ==
    \A d \in DN :
        (PlannedAddrs(d) # {} /\ ~Member(d))
            ~> (PlannedAddrs(d) = {} \/ Member(d))

C30_ReportsGoOn ==
    \A d \in DN : dn[d].pc = "running" => dn[d].reportDue

\* C31: handlers of the coordinator that run side by side and touch the same
\* field of BlkToDatanodes, SID2Addr, Addr2SID, one of them writing it, both
\* do so holding the coordinator's mutex.
C31_CoordinatorMutex ==
    \A x, y \in busy :
        (x.at = "nn" /\ Conflict(x, y)) => (x.h \in Locking /\ y.h \in Locking)

\* C32: while a SendBlk inserts into a data server's IDToMetaData, no other
\* goroutine of that data server reads the map, unless both hold its mutex.
C32_DataServerMutex ==
    \A x, y \in busy :
        (x.at \in DN /\ Conflict(x, y)) => (x.h \in Locking /\ y.h \in Locking)

\* goroutine i got a reply from a replica of its block
MapReplied(i) == mv.g[i].pc # "req" /\ mv.g[i].k <= Len(mv.g[i].ns)

\* C33: when the reducer of CalMeanVar has computed its result, finished is
\* the number of blocks and the three totals are the sums of what the map
\* goroutines got as replies, whatever the interleaving of the goroutines.
C33_ReductionRaceFree ==
    mv.pc = "returned" =>
        /\ mv.finished = Len(mv.BlkList)
        /\ mv.totCnt = SumOf([i \in 1..Len(mv.g) |->
                                IF MapReplied(i) THEN mv.g[i].Cnt ELSE 0])
        /\ mv.totMean = SumOf([i \in 1..Len(mv.g) |->
                                 IF MapReplied(i)
                                 THEN TimesCnt(mv.g[i].Mean, mv.g[i].Cnt) ELSE 0])
        /\ mv.totSQ = SumOf([i \in 1..Len(mv.g) |->
                               IF MapReplied(i)
                               THEN TimesCnt(mv.g[i].MeanSQ, mv.g[i].Cnt) ELSE 0])

\* C34: as long as the heartbeat period of some Notify has not run out,
\* RequestBlk is set: the end of an earlier Notify's period does not clear
\* the flag under a later Notify whose period still runs.
C34_NotifyWindowKept ==
    notifying > 0 => RequestBlk

\* C35: a block is written to the local file once: when a replica of the
\* block has been accepted and appended, no later step of the read appends
\* bytes for the same block.
C35_BlockWrittenOnce ==
    [][(cr.pc = "fetch" /\ cr'.pc # "idle" /\ cr.i \in cr.okBlks) =>
          cr'.out = cr.out]_vars

\* C36: a block that a running data server stores is never overwritten:
\* whatever is sent, its payload file, its metadata file and its entry in
\* IDToMetaData stay as they are.
C36_NeverOverwritten ==
    [][\A d \in DN :
         (dn[d].pc = "running" /\ dn'[d].pc = "running") =>
            \A b \in DOMAIN dn[d].IDToMetaData \cap DOMAIN disk[d].act :
               /\ disk'[d].act[b] = disk[d].act[b]
               /\ disk'[d].meta[b] = disk[d].meta[b]
               /\ dn'[d].IDToMetaData[b] = dn[d].IDToMetaData[b]]_vars

\* C37: whatever the point inside SendBlk at which a data server was killed,
\* the IDToMetaData map it rebuilds at its next start, and so its block
\* report, holds a block only when the block's metadata file and its whole
\* payload file are on disk.
C37_BlockAtomicOverCrash ==
    \A d \in DN :
        IsUp(d) =>
            \A b \in DOMAIN dn[d].IDToMetaData :
                /\ b \in DOMAIN disk[d].meta
                /\ disk[d].meta[b] = MetaJSON(dn[d].IDToMetaData[b])
                /\ b \in DOMAIN disk[d].act
                /\ Len(disk[d].act[b]) = BlkSize
                /\ ChecksumIEEE(disk[d].act[b]) = dn[d].IDToMetaData[b].Checksum

\* the timestamp field the coordinator put into a BlockID: the last but one
\* of filename-index-timestamp-random
BlkTimestampOf(blk) == blk[Len(blk) - 1]

\* C38: the Timestamp a data server keeps for a block is the timestamp the
\* coordinator put into the BlockID, also when the file name holds hyphens.
C38_TimestampKept ==
    \A d \in DN :
        \A b \in DOMAIN dn[d].IDToMetaData :
            dn[d].IDToMetaData[b].Timestamp = BlkTimestampOf(b)

\* C39: SID2Addr and Addr2SID are inverse to each other: an address is
\* mapped to a StorageID exactly when that StorageID is mapped to the
\* address, also after a data server has registered its StorageID from a new
\* address.
C39_MembershipMapsInverse ==
    /\ \A a \in DOMAIN Addr2SID :
          Addr2SID[a] \in DOMAIN SID2Addr /\ SID2Addr[Addr2SID[a]] = a
    /\ \A sid \in DOMAIN SID2Addr :
          SID2Addr[sid] \in DOMAIN Addr2SID /\ Addr2SID[SID2Addr[sid]] = sid

\* path names a file of the namespace
IsFile(path) == Exists(tree, path) /\ ~IsDir(tree, path)

\* C40: a CopyToLocal or a CalMeanVar that is answered as a success, with a
\* block list, was asked for a path that is a file of the namespace; for a
\* path that does not exist or is a directory the caller gets an error.
C40_MissingPathIsError ==
    [][/\ (cr' # cr /\ cr.pc # "fetch" /\ cr'.pc \in {"fetch", "done"}) =>
             IsFile(cr'.path)
       /\ (mv' # mv /\ mv.pc # "run" /\ mv'.pc = "run") => IsFile(mv'.path)]_vars
====
